---- MODULE Spec2Model ----
(***************************************************************************)
(* Model of the wind globe (src/app/components/windplot.tsx): the grid     *)
(* sampler windAt, the particle system updateParticles, the camera-move /  *)
(* overlay debounce of the rendering effect, and the level loader.         *)
(*                                                                         *)
(* Numbers.  Angles are integers in millidegrees (1 degree = 1000), so     *)
(* that SPEED_FACTOR = 0.008 degree per m/s and the pole clamp 89.999 are  *)
(* exact.  Grid values are integers (m/s) or NaN.  An interpolated value   *)
(* is kept exactly, as its numerator over the denominator dx*dy.           *)
(***************************************************************************)
EXTENDS Integers, Sequences, FiniteSets, TLC

VARIABLES
    gridMeta,   \* gridMeta.current as destructured by the effect: nx, ny, lo1, la1, dx, dy
    U, V,       \* the level's arrays as destructured by the effect (0-based)
    qlon, qlat, \* arguments of the last windAt call made by the sampling harness
    res,        \* what that call returned
    particles,  \* particles[i] = [lon, lat, age2]: age2 is twice the age (ages start fractional)
    prevXY,     \* prevXY[i] = [x, y]: last screen position, x = y = NaN when none
    drawn,      \* drawn[i]: strokeStyle of the segment stroked for i in the last tick, "" when none
    path,       \* path[i]: where the forEach body left off for i in the last tick
    trailInk,   \* the trail canvas holds ink stroked since its last clearRect
    ticks,      \* animation frames run so far
    camera,     \* [pos, target, behind]: camera.position, controls.target, globe behind the camera
    lastCam,    \* [pos, target]: lastCamPos, lastCamTarget
    size,       \* [w, h]: the canvases' width and height
    overlayMode,
    airModeEnabled,
    lvlIdx,                 \* the lvlIdx state (0-based)
    epoch,                  \* how many times the rendering effect has been set up
    isMoving,
    moveTimeout,            \* the settle timer: time left, Off when not pending
    controlsChangeTimeout,  \* the change-event debounce timer: time left, Off when not pending
    resizeTimers,           \* the pending 100 ms timers of resize: time left of each
    initTimer,              \* the 500 ms initial-render timer: time left, Off when not pending
    overlayFrames,          \* pending requestAnimationFrame callbacks of renderAirModeOverlay
    overlay,                \* the overlay canvas: "clear", or the mode the last pass painted
    overlaySrc,             \* the arrays that pass sampled: <<U, V>>, <<T>>, or <<>> for none
    sinceMove,              \* time since handleCamMove last ran (capped), Off if it never ran
    last,                   \* the handler that ran last
    manifest,       \* the wind manifest, each name replaced by what its fetch yields
    loader,         \* the wind loader: [pos, next, state], pos files handled so far
    levels,         \* the levels state
    tempManifest,   \* the temperature manifest, likewise
    tempLoader,     \* the temperature loader: [pos, next, state]
    tempLevels,     \* the tempLevels state
    tempGridMeta,   \* tempGridMeta.current
    colorArgs,      \* the last call of a colour map: [fn, value, alpha]
    colorRet,       \* what that call returned: <<r, g, b, a>>
    dashOpen,       \* the dashOpen state: the keyboard handler of the altitude control is attached
    thrown,         \* the rendering effect threw (the component tree is gone)
    tempSeen,       \* the tempLevels the running instance of the rendering effect closed over
    stale           \* what torn-down instances left pending: [resize, init, frames, moving] each

sampleVars == <<gridMeta, U, V, qlon, qlat, res>>

particleVars == <<particles, prevXY, drawn, path, trailInk, ticks>>

viewVars == <<camera, lastCam, size, overlayMode, airModeEnabled, lvlIdx, epoch>>

timerVars == <<isMoving, moveTimeout, controlsChangeTimeout, resizeTimers, initTimer,
               overlayFrames, overlay, overlaySrc, sinceMove>>

loadVars == <<manifest, loader, levels, tempManifest, tempLoader, tempLevels, tempGridMeta>>

colorVars == <<colorArgs, colorRet>>

sessionVars == <<dashOpen, thrown, tempSeen, stale>>

vars == <<sampleVars, particleVars, viewVars, timerVars, last, loadVars, colorVars, sessionVars>>

-----------------------------------------------------------------------------
(* IEEE arithmetic, as far as the code relies on it *)

\* the not-a-number value (also what `undefined` becomes in arithmetic)
NaN == 0 - 2147483647

Infinity == 2147483640

NegInfinity == 0 - Infinity

isFinite(x) == x \notin {NaN, Infinity, NegInfinity}

FMul(a, b) == IF a = NaN \/ b = NaN THEN NaN ELSE a * b

FAdd(a, b) == IF a = NaN \/ b = NaN THEN NaN ELSE a + b

\* JavaScript's % : the remainder takes the sign of the dividend
JsRem(a, b) == IF a >= 0 THEN a % b ELSE 0 - ((0 - a) % b)

\* Math.floor(a / b) for b > 0
Floor(a, b) == a \div b

\* A[k] of a typed array: undefined outside 0 .. length-1, NaN once multiplied
ArrGet(A, k) == IF k \in DOMAIN A THEN A[k] ELSE NaN

\* gridMeta.current === null
NoMeta == [nx |-> 0, ny |-> 0, lo1 |-> 0, la1 |-> 0, dx |-> 0, dy |-> 0]

-----------------------------------------------------------------------------
(* The colour maps.  A wind speed is a whole number of m/s, a normalized     *)
(* speed a number of hundredths and a hue a number of 45ths, so that the     *)
(* sinebow's angle hue * TAU * 5/6 * 0.75 is a multiple of 5 degrees.  A     *)
(* temperature is in hundredths of a degree, an alpha in thousandths.  The   *)
(* maps are computed exactly: where the code's doubles round a quotient     *)
(* that is a whole number in exact arithmetic, a channel may differ by one.  *)

\* Math.sin at 0, 5, .. 315 degrees, in millionths
SinTable == <<
    0, 87156, 173648, 258819, 342020, 422618, 500000, 573576,
    642788, 707107, 766044, 819152, 866025, 906308, 939693, 965926,
    984808, 996195, 1000000, 996195, 984808, 965926, 939693, 906308,
    866025, 819152, 766044, 707107, 642788, 573576, 500000, 422618,
    342020, 258819, 173648, 87156, 0, 0 - 87156, 0 - 173648, 0 - 258819,
    0 - 342020, 0 - 422618, 0 - 500000, 0 - 573576, 0 - 642788, 0 - 707107, 0 - 766044, 0 - 819152,
    0 - 866025, 0 - 906308, 0 - 939693, 0 - 965926, 0 - 984808, 0 - 996195, 0 - 1000000, 0 - 996195,
    0 - 984808, 0 - 965926, 0 - 939693, 0 - 906308, 0 - 866025, 0 - 819152, 0 - 766044, 0 - 707107>>

Sin5(k) == SinTable[k + 1]

\* Math.cos(x) = Math.sin(x + 90 degrees)
Cos5(k) == SinTable[k + 19]

Max2(a, b) == IF a >= b THEN a ELSE b

Min2(a, b) == IF a <= b THEN a ELSE b

\* Math.round(p / q) for q > 0: halves round up
Round(p, q) == (2 * p + q) \div (2 * q)

\* Math.floor(alpha * 255)
Alpha255(alpha) == Floor(alpha * 255, 1000)

\* BOUNDARY = 0.45, in hundredths
BOUNDARY == 45

\* sinebowColor(hue / BOUNDARY, a): rad = 5 * hue degrees
sinebowColor(hue, a) ==
    LET s == Sin5(hue)
        c == Cos5(hue)
    IN  <<Floor(Max2(0, 0 - c) * 255, 1000000),
          Floor(Max2(s, 0) * 255, 1000000),
          Floor(Max2(Max2(c, 0), 0 - s) * 255, 1000000),
          a>>

\* colorInterpolator(start, end)(num / den, a)
colorInterpolator(start, end, num, den, a) ==
    <<Floor(start[1] * den + num * (end[1] - start[1]), den),
      Floor(start[2] * den + num * (end[2] - start[2]), den),
      Floor(start[3] * den + num * (end[3] - start[3]), den),
      a>>

\* extendedSinebowColor(i / 100, a)
extendedSinebowColor_noFade(i, a) == sinebowColor(Min2(i, BOUNDARY), a)

extendedSinebowColor(i, a) ==
    IF i <= BOUNDARY
    THEN sinebowColor(i, a)
    ELSE colorInterpolator(SubSeq(sinebowColor(BOUNDARY, 0), 1, 3), <<255, 255, 255>>,
                           i - BOUNDARY, 100 - BOUNDARY, a)

windSpeedColorScale_noGuard(windSpeedMs, alpha) ==
    extendedSinebowColor(IF windSpeedMs \in 0 .. 100 THEN windSpeedMs ELSE 100, Alpha255(alpha))

windSpeedColorScale(windSpeedMs, alpha) ==
    IF ~isFinite(windSpeedMs) \/ windSpeedMs < 0
    THEN <<0, 0, 0, 0>>
    ELSE extendedSinebowColor(Min2(windSpeedMs, 100), Alpha255(alpha))

\* the segments of tempColorScale: t < upTo / 13000, the colours at scale 0 and 1
TempRamp == <<
    [upTo |-> 1300,  from |-> <<80, 20, 120>>,   to |-> <<110, 60, 180>>],
    [upTo |-> 3250,  from |-> <<110, 60, 180>>,  to |-> <<50, 120, 220>>],
    [upTo |-> 5200,  from |-> <<50, 120, 220>>,  to |-> <<80, 180, 240>>],
    [upTo |-> 6500,  from |-> <<80, 180, 240>>,  to |-> <<100, 220, 240>>],
    [upTo |-> 7800,  from |-> <<100, 220, 240>>, to |-> <<160, 240, 180>>],
    [upTo |-> 9100,  from |-> <<160, 240, 180>>, to |-> <<220, 250, 120>>],
    [upTo |-> 10140, from |-> <<220, 250, 120>>, to |-> <<255, 240, 60>>],
    [upTo |-> 11180, from |-> <<255, 240, 60>>,  to |-> <<255, 160, 20>>],
    [upTo |-> 12090, from |-> <<255, 160, 20>>,  to |-> <<250, 80, 15>>],
    [upTo |-> 12610, from |-> <<250, 80, 15>>,   to |-> <<220, 30, 10>>],
    [upTo |-> 13000, from |-> <<220, 30, 10>>,   to |-> <<180, 10, 5>>]>>

\* the branch of the if-chain that t = n / 13000 takes
TempSegment(n) ==
    IF \E k \in DOMAIN TempRamp : n < TempRamp[k].upTo
    THEN CHOOSE k \in DOMAIN TempRamp :
            /\ n < TempRamp[k].upTo
            /\ \A j \in 1 .. k - 1 : n >= TempRamp[j].upTo
    ELSE Len(TempRamp)

\* Math.round(a * (1 - scale) + b * scale) at scale = m / w
Mix(a, b, m, w) == Round(a * (w - m) + b * m, w)

\* tempValue > 100 ? tempValue - 273.15 : tempValue
toCelsius_never(tempValue) == tempValue

toCelsius(tempValue) == IF tempValue > 10000 THEN tempValue - 27315 ELSE tempValue

tempColorScale(tempValue, alpha) ==
    IF ~isFinite(tempValue)
    THEN <<0, 0, 0, 0>>
    ELSE LET clampedTemp == Max2(0 - 8000, Min2(5000, toCelsius(tempValue)))
             n == clampedTemp + 8000
             k == TempSegment(n)
             lo == IF k = 1 THEN 0 ELSE TempRamp[k - 1].upTo
             w == TempRamp[k].upTo - lo
             c0 == TempRamp[k].from
             c1 == TempRamp[k].to
         IN  <<Mix(c0[1], c1[1], n - lo, w),
               Mix(c0[2], c1[2], n - lo, w),
               Mix(c0[3], c1[3], n - lo, w),
               Alpha255(alpha)>>

\* no key has been pressed and no instance of the rendering effect torn down;
\* the running instance, if any, closed over the temperature levels seen
Fresh(seen) ==
    /\ dashOpen = FALSE
    /\ thrown = FALSE
    /\ tempSeen = seen
    /\ stale = <<>>

\* no colour map has been called
ColorIdle ==
    /\ colorArgs = [fn |-> "none", value |-> 0, alpha |-> 0]
    /\ colorRet = <<>>

CallWindSpeedColorScale(windSpeedMs, alpha) ==
    /\ colorArgs' = [fn |-> "windSpeedColorScale", value |-> windSpeedMs, alpha |-> alpha]
    /\ colorRet' = windSpeedColorScale(windSpeedMs, alpha)
    /\ UNCHANGED <<sampleVars, particleVars, viewVars, timerVars, last, loadVars, sessionVars>>

CallTempColorScale(tempValue, alpha) ==
    /\ colorArgs' = [fn |-> "tempColorScale", value |-> tempValue, alpha |-> alpha]
    /\ colorRet' = tempColorScale(tempValue, alpha)
    /\ UNCHANGED <<sampleVars, particleVars, viewVars, timerVars, last, loadVars, sessionVars>>

TEMP_OVERLAY_ALPHA == 350

\* the artifact filter of the temperature overlay on a sample whose cell has
\* four corners of the finite value t (so that tempValue = t), away from the
\* first and the last column, the grid points around the cell holding near:
\* shouldSkip, then finalTemp, the weighted average of the valid grid points
\* within two steps when shouldSkip and there are any
shouldSkip(tempValue) == tempValue < 0 - 10000 \/ tempValue > 10000

finalTemp(t, near) ==
    IF shouldSkip(t) /\ isFinite(near) /\ near > 0 - 10000 /\ near < 10000 THEN near ELSE t

\* the opacity factor: baseAlpha, in thousandths
baseAlpha(skip) == IF skip THEN 500 ELSE 800

\* the pixel the temperature branch of a pass writes for such a sample
TempPixel(t, near) ==
    LET c == tempColorScale(finalTemp(t, near), TEMP_OVERLAY_ALPHA)
    IN  <<c[1], c[2], c[3], Floor(c[4] * baseAlpha(shouldSkip(t)), 1000)>>

PaintTempPixel(t, near) ==
    /\ isFinite(t)
    /\ colorArgs' = [fn |-> "overlayPixel", value |-> t, alpha |-> TEMP_OVERLAY_ALPHA]
    /\ colorRet' = TempPixel(t, near)
    /\ UNCHANGED <<sampleVars, particleVars, viewVars, timerVars, last, loadVars, sessionVars>>

-----------------------------------------------------------------------------
(* The sampler *)

idx_nowrap(nx, j, i) == j * nx + i

\* const idx = (j, i) => j * nx + ((i + nx) % nx)
idx(nx, j, i) == j * nx + JsRem(i + nx, nx)

normalizeLon_nofix(lon) == JsRem(lon + 180000, 360000) - 180000

normalizeLon(lon) ==
    LET n0 == JsRem(lon + 180000, 360000) - 180000
        n1 == IF n0 < -180000 THEN n0 + 360000 ELSE n0
    IN  IF n1 > 180000 THEN n1 - 360000 ELSE n1

\* the fractional grid coordinates of windAt, as numerators: i = iNum/dx, j = jNum/dy
GridPos(g, lon, lat) ==
    LET iNum == JsRem(normalizeLon(lon) - g.lo1 + 360000, 360000)
        jNum == g.la1 - lat
        i0   == Floor(iNum, g.dx)
        j0   == Floor(jNum, g.dy)
    IN  [i0 |-> i0, j0 |-> j0, ri |-> iNum - i0 * g.dx, rj |-> jNum - j0 * g.dy]

\* the four values interp gathers: g00, g10, g01, g11
Gather(g, A, i0, j0) ==
    [g00 |-> ArrGet(A, idx(g.nx, j0, i0)),
     g10 |-> ArrGet(A, idx(g.nx, j0, i0 + 1)),
     g01 |-> ArrGet(A, idx(g.nx, j0 + 1, i0)),
     g11 |-> ArrGet(A, idx(g.nx, j0 + 1, i0 + 1))]

Blend_swapped(g, n, ri, rj) ==
    FAdd(FAdd(FAdd(FMul(n.g00, ri * rj),
                   FMul(n.g10, (g.dx - ri) * rj)),
              FMul(n.g01, ri * (g.dy - rj))),
         FMul(n.g11, (g.dx - ri) * (g.dy - rj)))

Blend_skipzero(g, n, ri, rj) ==
    LET T(x, w) == IF w = 0 THEN 0 ELSE FMul(x, w)
    IN  FAdd(FAdd(FAdd(T(n.g00, (g.dx - ri) * (g.dy - rj)),
                       T(n.g10, ri * (g.dy - rj))),
                  T(n.g01, (g.dx - ri) * rj)),
             T(n.g11, ri * rj))

\* g00(1-fi)(1-fj) + g10 fi(1-fj) + g01(1-fi)fj + g11 fi fj, times dx*dy
Blend(g, n, ri, rj) ==
    FAdd(FAdd(FAdd(FMul(n.g00, (g.dx - ri) * (g.dy - rj)),
                   FMul(n.g10, ri * (g.dy - rj))),
              FMul(n.g01, (g.dx - ri) * rj)),
         FMul(n.g11, ri * rj))

interp(g, A, p) == Blend(g, Gather(g, A, p.i0, p.j0), p.ri, p.rj)

windAt(g, uu, vv, lon, lat) ==
    LET p == GridPos(g, lon, lat)
    IN  [u |-> interp(g, uu, p), v |-> interp(g, vv, p)]

\* the denominator of the values windAt returns
Den(g) == g.dx * g.dy

-----------------------------------------------------------------------------
(* The particle system *)

PARTICLE_LIFE == 601

\* SPEED_FACTOR = 0.008 degrees per m/s and tick, in millidegrees
SPEED_FACTOR_MILLI == 8

\* particles in the pool (PARTICLE_COUNT is 20000)
NumParticles == 1

\* animation frames a behaviour runs
MaxTicks == 3

Pids == 1 .. NumParticles

\* Math.random() * 360 - 180 and Math.random() * 180 - 90, Math.random() in [0, 1):
\* the draws the model takes (0 gives -180 and -90)
RandomLons == {0 - 180000, 30000, 60000, 85000, 90000, 179995}

RandomLats == {0 - 90000, 0 - 89992, 0, 60000, 89992, 89995}

RandomDraws == [lon : RandomLons, lat : RandomLats]

\* Math.random() * PARTICLE_LIFE, doubled: 0, 599 and 600.5
RandomAges2 == {0, 2 * PARTICLE_LIFE - 4, 2 * PARTICLE_LIFE - 1}

NoXY == [x |-> NaN, y |-> NaN]

\* clearPrev(i)
clearPrev(xy) == NoXY

recycle_keepsTrail(d, xy) == [p |-> [lon |-> d.lon, lat |-> d.lat, age2 |-> 0], prev |-> xy]

\* recycle(i), with the two Math.random() draws d
recycle(d, xy) == [p |-> [lon |-> d.lon, lat |-> d.lat, age2 |-> 0], prev |-> clearPrev(xy)]

\* ++p.age > PARTICLE_LIFE, on the doubled age after the increment
Expired(age2) == age2 > 2 * PARTICLE_LIFE

\* 1000 / Math.cos(degToRad(lat)), by latitude band (the value at the band's
\* low edge); cos is positive even at +-90, where the quotient is finite
SecMilli(lat) ==
    LET a == IF lat < 0 THEN 0 - lat ELSE lat
    IN  IF a < 30000 THEN 1000
        ELSE IF a < 60000 THEN 1155
        ELSE IF a < 75000 THEN 2000
        ELSE IF a < 85000 THEN 3864
        ELSE IF a < 89000 THEN 11474
        ELSE IF a < 89999 THEN 57299
        ELSE 57295780

\* w * SPEED_FACTOR in whole millidegrees (rounded down), w = num/den m/s
Advance(num, den) == Floor(num, den \div SPEED_FACTOR_MILLI)

\* THREE.MathUtils.clamp
clamp(x, lo, hi) == IF x < lo THEN lo ELSE IF x > hi THEN hi ELSE x

\* ((x + 180) % 360) - 180
wrapLon(x) == JsRem(x + 180000, 360000) - 180000

\* p.lat > 90 || p.lat < -90
PoleCrossed(lat) == lat > 90000 \/ lat < 0 - 90000

\* the camera's longitude: it orbits at distance 450, so one world unit along
\* the orbit is 1/450 rad = 0.127 degrees
CamLon(cam) == cam.pos * 127

\* normalize(worldPos) . camDir > 0, for a camera over the equator: cos(lat) is
\* positive, so the sign is that of cos(lon - camera longitude)
Visible(cam, lon, lat) ==
    LET rel == (lon - CamLon(cam)) % 360000
    IN  rel < 90000 \/ rel > 270000

\* worldToScreen: null when the projected z exceeds 1 (the globe behind the
\* camera); the projection of the visible hemisphere onto the canvas is
\* taken linear in longitude and latitude
worldToScreen(cam, sz, lon, lat) ==
    LET rel == (lon - CamLon(cam) + 90000) % 360000
    IN  IF cam.behind
        THEN [ok |-> FALSE, x |-> NaN, y |-> NaN]
        ELSE [ok |-> TRUE,
              x |-> (sz.w * rel) \div 180000,
              y |-> (sz.h * (90000 - lat)) \div 180000]

\* trailColor(u, v)
trailColor(mode, u, v) ==
    IF mode = "temperature" THEN "rgba(255,255,255,0.9)" ELSE "rgba(255,255,255,0.7)"

WithinGuard_always(sz, a, b) == TRUE

\* Math.hypot(sx1 - sx0, sy1 - sy0) <= sMin, sMin = min(width, height) * 0.4
WithinGuard(sz, a, b) ==
    LET m == IF sz.w < sz.h THEN sz.w ELSE sz.h
    IN  25 * ((b.x - a.x) * (b.x - a.x) + (b.y - a.y) * (b.y - a.y)) <= 4 * m * m

\* the forEach body of updateParticles for one particle p with trail state xy:
\* recycle says that recycle(i) was called (the caller draws its randoms)
ParticleTick(p, xy) ==
    LET w == windAt(gridMeta, U, V, p.lon, p.lat)
        none == [recycle |-> TRUE, p |-> p, prev |-> xy, seg |-> "", path |-> "expired"]
    IN  IF ~isFinite(w.u) \/ ~isFinite(w.v) THEN [none EXCEPT !.path = "missing"]
        ELSE
        LET dLon == (Advance(w.u, Den(gridMeta)) * SecMilli(p.lat)) \div 1000
            lon1 == wrapLon(p.lon + dLon)
            lat1 == p.lat + Advance(w.v, Den(gridMeta))
            pole == PoleCrossed(lat1)
            lat2 == IF pole THEN clamp(lat1, 0 - 89999, 89999) ELSE lat1
            lon2 == IF pole THEN wrapLon(lon1) ELSE lon1
            age2 == p.age2 + 2
            q    == [lon |-> lon2, lat |-> lat2, age2 |-> age2]
        IN  IF Expired(age2) THEN none
            ELSE IF ~Visible(camera, lon2, lat2) \/ ~Visible(camera, p.lon, p.lat)
            THEN [recycle |-> FALSE, p |-> q, prev |-> clearPrev(xy), seg |-> "", path |-> "hidden"]
            ELSE
            LET scr == worldToScreen(camera, size, lon2, lat2)
            IN  IF ~scr.ok
                THEN [recycle |-> FALSE, p |-> q, prev |-> clearPrev(xy), seg |-> "",
                      path |-> "unprojected"]
                ELSE [recycle |-> FALSE, p |-> q, prev |-> [x |-> scr.x, y |-> scr.y],
                      path |-> "moved",
                      seg |-> IF xy.x # NaN /\ WithinGuard(size, xy, scr)
                              THEN trailColor(overlayMode, w.u, w.v) ELSE ""]

\* one animation frame: updateParticles over the whole pool
UpdateParticles ==
    /\ ticks < MaxTicks
    /\ LET r == [i \in Pids |-> ParticleTick(particles[i], prevXY[i])]
           R == {i \in Pids : r[i].recycle}
       IN  \E d \in [R -> RandomDraws] :
            /\ particles' = [i \in Pids |-> IF i \in R THEN recycle(d[i], prevXY[i]).p ELSE r[i].p]
            /\ prevXY' = [i \in Pids |-> IF i \in R THEN recycle(d[i], prevXY[i]).prev ELSE r[i].prev]
            /\ drawn' = [i \in Pids |-> r[i].seg]
            /\ path' = [i \in Pids |-> r[i].path]
            /\ trailInk' = (trailInk \/ \E i \in Pids : r[i].seg # "")
    /\ ticks' = ticks + 1
    /\ last' = "updateParticles"
    /\ UNCHANGED <<colorVars, sessionVars, loadVars, sampleVars, viewVars, timerVars>>

-----------------------------------------------------------------------------
(* Camera movement and the overlay debounce.  Time advances in steps of 50  *)
(* ms; a timer holds the time it has left and fires at 0, before time moves *)
(* on.  The 5 ms debounce is due within the step in which it was set.       *)

SIGNIFICANT_CAM_MOVE2 == 4

\* the delay of moveTimeout, in ms
SETTLE_MS == 150

\* the delay of the timer resize sets, in ms
RESIZE_MS == 100

\* the delay of the initial overlay render, in ms
INITIAL_MS == 500

\* the delay of controlsChangeTimeout, in ms
DEBOUNCE_MS == 5

TimeStep == 5 * 10

Delay(ms) == ms \div TimeStep

Off == 0 - 1

\* how far (world units) the camera and the orbit target travel in a behaviour
MaxCam == 3

\* resize timers, and overlay frames, that may be pending at once
MaxPending == 1

\* the sizes the wrapper takes
Sizes == {[w |-> 1000, h |-> 800], [w |-> 500, h |-> 500]}

\* what a 'change' event of OrbitControls reports: the camera orbited by dpos,
\* or the target was panned by dtarget, which takes the globe out of the
\* projection's depth range
Gestures ==
    {[dpos |-> 1, dtarget |-> 0], [dpos |-> 3, dtarget |-> 0], [dpos |-> 0, dtarget |-> 3]}

Sq(x) == x * x

\* cameraMoved()
cameraMoved(cam, lc) ==
    \/ Sq(cam.pos - lc.pos) > SIGNIFICANT_CAM_MOVE2
    \/ Sq(cam.target - lc.target) > SIGNIFICANT_CAM_MOVE2

OverlayBlocked_ignoresMoving(air, mode, moving) == ~air /\ mode # "temperature"

\* (!airModeEnabled && overlayMode !== 'temperature') || isMoving
OverlayBlocked(air, mode, moving) == (~air /\ mode # "temperature") \/ moving

\* airModeEnabled || overlayMode === 'temperature'
OverlayWanted(air, mode) == air \/ mode = "temperature"

\* renderAirModeOverlay(): the frames pending after the call
renderAirModeOverlay(frames, moving) ==
    IF OverlayBlocked(airModeEnabled, overlayMode, moving) THEN frames ELSE frames + 1

\* a 'change' event: OrbitControls moved the camera (a drag, or damping inside
\* controls.update()); the listener restarts the debounce timer
ControlsChange(g) ==
    /\ camera.pos + g.dpos <= MaxCam
    /\ camera.target + g.dtarget <= MaxCam
    /\ camera' = [pos |-> camera.pos + g.dpos,
                  target |-> camera.target + g.dtarget,
                  behind |-> (camera.target + g.dtarget # 0)]
    /\ controlsChangeTimeout' = Delay(DEBOUNCE_MS)
    /\ last' = "change"
    /\ UNCHANGED <<colorVars, sessionVars, loadVars, sampleVars, particleVars, lastCam, size, overlayMode, airModeEnabled, lvlIdx, epoch,
                   isMoving, moveTimeout, resizeTimers, initTimer, overlayFrames, overlay, overlaySrc,
                   sinceMove>>

\* the debounce timer fires and finds no significant move
DebounceQuiet ==
    /\ controlsChangeTimeout = 0
    /\ ~cameraMoved(camera, lastCam)
    /\ controlsChangeTimeout' = Off
    /\ last' = "debounce"
    /\ UNCHANGED <<colorVars, sessionVars, loadVars, sampleVars, particleVars, viewVars, isMoving, moveTimeout, resizeTimers,
                   initTimer, overlayFrames, overlay, overlaySrc, sinceMove>>

\* the debounce timer fires, cameraMoved() holds: handleCamMove()
HandleCamMove ==
    /\ controlsChangeTimeout = 0
    /\ cameraMoved(camera, lastCam)
    /\ controlsChangeTimeout' = Off
    /\ trailInk' = FALSE
    /\ prevXY' = [i \in Pids |-> NoXY]
    /\ lastCam' = [pos |-> camera.pos, target |-> camera.target]
    /\ isMoving' = TRUE
    /\ overlay' = "clear"
    /\ overlaySrc' = <<>>
    /\ moveTimeout' = Delay(SETTLE_MS)
    /\ sinceMove' = 0
    /\ last' = "handleCamMove"
    /\ UNCHANGED <<colorVars, sessionVars, loadVars, sampleVars, particles, drawn, path, ticks, camera, size, overlayMode,
                   airModeEnabled, lvlIdx, epoch, resizeTimers, initTimer, overlayFrames>>

\* moveTimeout fires
Settle ==
    /\ moveTimeout = 0
    /\ moveTimeout' = Off
    /\ isMoving' = FALSE
    /\ overlayFrames' = IF OverlayWanted(airModeEnabled, overlayMode)
                        THEN renderAirModeOverlay(overlayFrames, FALSE)
                        ELSE overlayFrames
    /\ overlayFrames' <= MaxPending
    /\ last' = "settle"
    /\ UNCHANGED <<colorVars, sessionVars, loadVars, sampleVars, particleVars, viewVars, controlsChangeTimeout, resizeTimers,
                   initTimer, overlay, overlaySrc, sinceMove>>

\* the window's resize event: resize()
Resize(sz) ==
    /\ sz # size
    /\ size' = sz
    /\ trailInk' = FALSE
    /\ overlay' = "clear"
    /\ overlaySrc' = <<>>
    /\ resizeTimers' = IF OverlayWanted(airModeEnabled, overlayMode) /\ ~isMoving
                       THEN Append(resizeTimers, Delay(RESIZE_MS))
                       ELSE resizeTimers
    /\ Len(resizeTimers') <= MaxPending
    /\ last' = "resize"
    /\ UNCHANGED <<colorVars, sessionVars, loadVars, sampleVars, particles, prevXY, drawn, path, ticks, camera, lastCam, overlayMode,
                   airModeEnabled, lvlIdx, epoch, isMoving, moveTimeout, controlsChangeTimeout, initTimer,
                   overlayFrames, sinceMove>>

\* a timer set by resize fires: renderAirModeOverlay()
ResizeTimer ==
    /\ resizeTimers # <<>>
    /\ Head(resizeTimers) = 0
    /\ resizeTimers' = Tail(resizeTimers)
    /\ overlayFrames' = renderAirModeOverlay(overlayFrames, isMoving)
    /\ overlayFrames' <= MaxPending
    /\ last' = "resizeTimer"
    /\ UNCHANGED <<colorVars, sessionVars, loadVars, sampleVars, particleVars, viewVars, isMoving, moveTimeout,
                   controlsChangeTimeout, initTimer, overlay, overlaySrc, sinceMove>>

\* the initial-render timer fires
InitialTimer ==
    /\ initTimer = 0
    /\ initTimer' = Off
    /\ overlayFrames' = IF ~isMoving THEN renderAirModeOverlay(overlayFrames, isMoving)
                        ELSE overlayFrames
    /\ overlayFrames' <= MaxPending
    /\ last' = "initialTimer"
    /\ UNCHANGED <<colorVars, sessionVars, loadVars, sampleVars, particleVars, viewVars, isMoving, moveTimeout,
                   controlsChangeTimeout, resizeTimers, overlay, overlaySrc, sinceMove>>

OverlaySamples_firstLevel ==
    IF overlayMode = "wind" THEN <<levels[1].U, levels[1].V>>
    ELSE IF overlayMode = "temperature" /\ tempLevels # <<>> /\ tempGridMeta # NoMeta
    THEN <<tempLevels[1].T>>
    ELSE <<>>

\* what a pass samples per pixel: windAt over U and V in wind mode, the T
\* array of tempLevels[lvlIdx] in temperature mode when that level and the
\* temperature grid exist, nothing otherwise
OverlaySamples_clamped ==
    IF overlayMode = "wind" THEN <<U, V>>
    ELSE IF overlayMode = "temperature" /\ tempSeen # <<>>
    THEN <<tempSeen[Min2(lvlIdx + 1, Len(tempSeen))].T>>
    ELSE <<>>

OverlaySamples ==
    IF overlayMode = "wind" THEN <<U, V>>
    ELSE IF overlayMode = "temperature" /\ lvlIdx < Len(tempSeen) /\ tempGridMeta # NoMeta
    THEN <<tempSeen[lvlIdx + 1].T>>
    ELSE <<>>

\* the animation-frame callback of renderAirModeOverlay: one full overlay pass,
\* unless the overlay is off or the camera is moving
OverlayFrame ==
    /\ overlayFrames > 0
    /\ overlayFrames' = overlayFrames - 1
    /\ overlay' = IF OverlayBlocked(airModeEnabled, overlayMode, isMoving)
                  THEN overlay ELSE overlayMode
    /\ overlaySrc' = IF OverlayBlocked(airModeEnabled, overlayMode, isMoving)
                     THEN overlaySrc ELSE OverlaySamples
    /\ last' = IF OverlayBlocked(airModeEnabled, overlayMode, isMoving)
               THEN "overlaySkipped" ELSE "overlayPass"
    /\ UNCHANGED <<colorVars, sessionVars, loadVars, sampleVars, particleVars, viewVars, isMoving, moveTimeout,
                   controlsChangeTimeout, resizeTimers, initTimer, sinceMove>>

Left_stuck(t) == t

Left(t) == IF t = Off THEN Off ELSE t - 1

Due(t) == t = 0

\* 50 ms pass: no timer is due, every pending timer has 50 ms less left
TimePasses ==
    /\ ~Due(moveTimeout) /\ ~Due(controlsChangeTimeout) /\ ~Due(initTimer)
    /\ \A k \in 1 .. Len(resizeTimers) : ~Due(resizeTimers[k])
    /\ \A o \in 1 .. Len(stale) :
        /\ ~Due(stale[o].init)
        /\ \A k \in 1 .. Len(stale[o].resize) : ~Due(stale[o].resize[k])
    /\ \/ moveTimeout # Off
       \/ initTimer # Off
       \/ resizeTimers # <<>>
       \/ \E o \in 1 .. Len(stale) : stale[o].init # Off \/ stale[o].resize # <<>>
       \/ sinceMove \in 0 .. (Delay(SETTLE_MS) - 1)
    /\ moveTimeout' = Left(moveTimeout)
    /\ controlsChangeTimeout' = Left(controlsChangeTimeout)
    /\ initTimer' = Left(initTimer)
    /\ resizeTimers' = [k \in 1 .. Len(resizeTimers) |-> resizeTimers[k] - 1]
    /\ sinceMove' = IF sinceMove = Off \/ sinceMove >= Delay(SETTLE_MS)
                    THEN sinceMove ELSE sinceMove + 1
    /\ stale' = [o \in 1 .. Len(stale) |->
                    [stale[o] EXCEPT !.init = Left(@),
                                     !.resize = [k \in 1 .. Len(@) |-> @[k] - 1]]]
    /\ last' = "time"
    /\ UNCHANGED <<colorVars, dashOpen, thrown, tempSeen, loadVars, sampleVars, particleVars, viewVars, isMoving, overlayFrames, overlay, overlaySrc>>

-----------------------------------------------------------------------------
(* Level and mode switches.  setLvlIdx and setOverlayMode (through the      *)
(* overlayMode effect's setRenderTrigger) change a dependency of the        *)
(* rendering effect: React runs its clean-up and then its body again.  The  *)
(* instance variables are those of the instance set up last; what a torn-   *)
(* down instance left pending is kept in stale and acts on that instance's  *)
(* own detached canvases and flags only.                                    *)

\* level or mode switches in a behaviour
MaxSwitches == 1

\* the torn-down instances that still have a timer or an animation frame
\* pending: the clean-up clears moveTimeout and controlsChangeTimeout and
\* cancels the loop's frame, not the resize timers, the initial-render timer
\* or the frames requested by renderAirModeOverlay
Pending(old) ==
    SelectSeq(old, LAMBDA o : o.resize # <<>> \/ o.init # Off \/ o.frames > 0)

\* a resize timer of a torn-down instance fires: its renderAirModeOverlay
\* sees the flags that instance was left with
StaleResizeTimer ==
    \E o \in 1 .. Len(stale) :
        /\ stale[o].resize # <<>>
        /\ Head(stale[o].resize) = 0
        /\ stale' = Pending([stale EXCEPT ![o].resize = Tail(@),
                                            ![o].frames = IF stale[o].moving THEN @ ELSE @ + 1])
        /\ last' = "staleResizeTimer"
        /\ UNCHANGED <<colorVars, dashOpen, thrown, tempSeen, loadVars, sampleVars, particleVars,
                       viewVars, timerVars>>

\* the initial-render timer of a torn-down instance fires
StaleInitialTimer ==
    \E o \in 1 .. Len(stale) :
        /\ stale[o].init = 0
        /\ stale' = Pending([stale EXCEPT ![o].init = Off,
                                            ![o].frames = IF stale[o].moving THEN @ ELSE @ + 1])
        /\ last' = "staleInitialTimer"
        /\ UNCHANGED <<colorVars, dashOpen, thrown, tempSeen, loadVars, sampleVars, particleVars,
                       viewVars, timerVars>>

\* an animation frame requested by a torn-down instance runs: unless that
\* instance was moving, a full pass over its detached overlay canvas
StaleOverlayFrame ==
    \E o \in 1 .. Len(stale) :
        /\ stale[o].frames > 0
        /\ stale' = Pending([stale EXCEPT ![o].frames = @ - 1])
        /\ last' = IF stale[o].moving THEN "staleOverlaySkipped" ELSE "staleOverlayPass"
        /\ UNCHANGED <<colorVars, dashOpen, thrown, tempSeen, loadVars, sampleVars, particleVars,
                       viewVars, timerVars>>

\* the pool a new instance may draw: a particle in view, and an aged one behind the globe
Spawns ==
    {[lon |-> 60000, lat |-> 0, age2 |-> 0],
     [lon |-> 0 - 180000, lat |-> 60000, age2 |-> 2 * PARTICLE_LIFE - 4]}

\* the clean-up of the running instance, then the effect body with level
\* index i and overlay mode m: new canvases, camera, particles and flags, the
\* timer of the first resize() and the initial-render timer; the clean-up
\* clears moveTimeout and controlsChangeTimeout
\* const { U, V, S } = levels[lvlIdx]
Destructure_zeroed(i) == [levels[i + 1] EXCEPT !.U = [c \in DOMAIN @ |-> 0]]

Destructure(i) == levels[i + 1]

\* the effect body from the destructuring of the level on, in overlay mode m
Setup(level, m) ==
    /\ U' = level.U
    /\ V' = level.V
    /\ particles' \in [Pids -> Spawns]
    /\ prevXY' = [p \in Pids |-> NoXY]
    /\ drawn' = [p \in Pids |-> ""]
    /\ path' = [p \in Pids |-> "none"]
    /\ trailInk' = FALSE
    /\ camera' = [pos |-> 0, target |-> 0, behind |-> FALSE]
    /\ lastCam' = [pos |-> 0, target |-> 0]
    /\ isMoving' = FALSE
    /\ moveTimeout' = Off
    /\ controlsChangeTimeout' = Off
    /\ resizeTimers' = IF OverlayWanted(m # "none", m) THEN <<Delay(RESIZE_MS)>> ELSE <<>>
    /\ initTimer' = IF OverlayWanted(m # "none", m) THEN Delay(INITIAL_MS) ELSE Off
    /\ overlayFrames' = 0
    /\ overlay' = "clear"
    /\ overlaySrc' = <<>>
    /\ sinceMove' = Off
    /\ tempSeen' = tempLevels

\* no instance of the rendering effect runs: its body returned at line 336
NoInstance == levels = <<>> \/ gridMeta = NoMeta

Restart(i, m) ==
    /\ epoch <= MaxSwitches
    /\ epoch' = epoch + 1
    /\ lvlIdx' = i
    /\ overlayMode' = m
    /\ airModeEnabled' = (m # "none")
    /\ Setup(Destructure(i), m)
    /\ stale' = Pending(Append(stale, [resize |-> resizeTimers, init |-> initTimer,
                                       frames |-> overlayFrames, moving |-> isMoving]))
    /\ UNCHANGED <<colorVars, dashOpen, thrown, gridMeta, qlon, qlat, res, size, ticks, loadVars>>

\* setLvlIdx(i) from the altitude control or the keyboard, i a loaded level
SetLvlIdx(i) ==
    /\ i \in 0 .. Len(levels) - 1
    /\ i # lvlIdx
    /\ Restart(i, overlayMode)
    /\ last' = "setLvlIdx"

\* setOverlayMode(m), then the overlayMode effect: setAirModeEnabled and setRenderTrigger
SetOverlayMode(m) ==
    /\ m # overlayMode
    /\ IF NoInstance
       THEN /\ overlayMode' = m
            /\ airModeEnabled' = (m # "none")
            /\ UNCHANGED <<colorVars, sessionVars, loadVars, sampleVars, particleVars, timerVars,
                           camera, lastCam, size, lvlIdx, epoch>>
       ELSE Restart(lvlIdx, m)
    /\ last' = "setOverlayMode"

\* the dashboard is opened or closed (the key t, the toggle button)
ToggleDash ==
    /\ dashOpen' = ~dashOpen
    /\ last' = "setDashOpen"
    /\ UNCHANGED <<colorVars, thrown, tempSeen, stale, loadVars, sampleVars, particleVars, viewVars,
                   timerVars>>

Keys == {"ArrowLeft", "ArrowRight", "Home", "End"}

\* what onKeyDown passes to setLvlIdx (ArrowDown as ArrowLeft, ArrowUp as ArrowRight)
KeyIdx(k) ==
    CASE k = "ArrowLeft"  -> Max2(0, lvlIdx - 1)
      [] k = "ArrowRight" -> Min2(Len(levels) - 1, lvlIdx + 1)
      [] k = "Home"       -> 0
      [] k = "End"        -> Len(levels) - 1

\* a key of the altitude control is pressed while the dashboard is open
KeyDown(k) ==
    /\ dashOpen
    /\ KeyIdx(k) # lvlIdx
    /\ IF NoInstance
       THEN /\ lvlIdx' = KeyIdx(k)
            /\ UNCHANGED <<colorVars, sessionVars, loadVars, sampleVars, particleVars, timerVars,
                           camera, lastCam, size, overlayMode, airModeEnabled, epoch>>
       ELSE Restart(KeyIdx(k), overlayMode)
    /\ last' = "keydown"

-----------------------------------------------------------------------------
(* Grids the sampler is exercised on.  Each satisfies the header invariant *)
(* nx >= 2, ny >= 2, dx > 0, dy > 0 and has nx*ny samples.                 *)

\* the 2x2 grid of the end-to-end scenario
HScenario == [nx |-> 2, ny |-> 2, lo1 |-> 0, la1 |-> 10000, dx |-> 10000, dy |-> 10000]

\* a regional 3x3 grid whose first column lies east of 180 degrees
HRegional == [nx |-> 3, ny |-> 3, lo1 |-> 300000, la1 |-> 20000, dx |-> 10000, dy |-> 10000]

\* a global grid, 30 degree spacing, pole to pole
HGlobal == [nx |-> 12, ny |-> 7, lo1 |-> 0, la1 |-> 90000, dx |-> 30000, dy |-> 30000]

Cells(g) == 0 .. (g.nx * g.ny - 1)

\* an array with one sample missing (k outside the array: none missing)
Hole(A, k) == [c \in DOMAIN A |-> IF c = k THEN NaN ELSE A[c]]

RegionalU == [c \in Cells(HRegional) |-> c + 1]

RegionalV == [c \in Cells(HRegional) |-> 0 - (c + 1)]

\* zonal wind by row, meridional wind by column, |value| <= 2
GlobalU == [c \in Cells(HGlobal) |-> ((c \div HGlobal.nx) % 5) - 2]

GlobalV == [c \in Cells(HGlobal) |-> ((c % HGlobal.nx) % 5) - 2]

Datasets ==
    {[g |-> HScenario, U |-> a, V |-> [c \in Cells(HScenario) |-> 3 - c]] :
        a \in [Cells(HScenario) -> {NaN, 0, 10}]}
    \cup {[g |-> HRegional, U |-> Hole(RegionalU, k), V |-> RegionalV] : k \in 0 .. 9}
    \cup {[g |-> HGlobal, U |-> Hole(GlobalU, k), V |-> Hole(GlobalV, k + 1)] :
            k \in {11, 12, 40, 83, 84}}

\* how many half turns (180 degrees) east and west of 0 the harness samples
LonReach == 2

\* sample positions: every 5 degrees of longitude; of latitude, from half a
\* row north of the first row to half a row south of the last
SampleLons == {k * 5000 : k \in (0 - 36 * LonReach) .. (36 * LonReach)}

SampleLats(g) == {g.la1 - m * (g.dy \div 2) : m \in (0 - 1) .. (2 * (g.ny - 1) + 1)}

-----------------------------------------------------------------------------
(* Loading.  A manifest is the sequence of what the fetches of its files    *)
(* yield; a wind file is the array uv of up to two objects [header, data],  *)
(* vObj first; a temperature file is one object, possibly without data.     *)

\* files a manifest lists
MaxFiles == 2

\* null in a JSON data array
Null == NaN + 1

\* const { nx, ny, lo1, la1, dx, dy } = header
Meta(h) == [nx |-> h.nx, ny |-> h.ny, lo1 |-> h.lo1, la1 |-> h.la1, dx |-> h.dx, dy |-> h.dy]

\* surface1Type === 103 ? `${surface1Value} m` : `${surface1Value} hPa`
label(h) == [value |-> h.surface1Value, unit |-> IF h.surface1Type = 103 THEN "m" ELSE "hPa"]

\* new Float32Array(d.map(x => x ?? NaN)), 0-based
to32(d) == [k \in 0 .. Len(d) - 1 |-> IF d[k + 1] = Null THEN NaN ELSE d[k + 1]]

Speed2_missingAsCalm(Uu, Vv) ==
    [j \in DOMAIN Uu |->
        IF isFinite(Uu[j])
        THEN Uu[j] * Uu[j] + (IF isFinite(ArrGet(Vv, j)) THEN Vv[j] * Vv[j] ELSE 0)
        ELSE NaN]

\* the speed overlay S of a level, kept squared: u*u + v*v, NaN unless both are finite
Speed2(Uu, Vv) ==
    [j \in DOMAIN Uu |->
        IF isFinite(Uu[j]) /\ isFinite(ArrGet(Vv, j))
        THEN Uu[j] * Uu[j] + Vv[j] * Vv[j] ELSE NaN]

\* what the loop body pushes for the wind file f = uv: nothing when an object is absent
Level(f) ==
    IF Len(f.uv) < 2 THEN <<>>
    ELSE LET vObj == f.uv[1]
             uObj == f.uv[2]
         IN  <<[label |-> label(vObj.header),
                V |-> to32(vObj.data),
                U |-> to32(uObj.data),
                S |-> Speed2(to32(uObj.data), to32(vObj.data))]>>

\* what the loop body pushes for the temperature file f: nothing when the fetch
\* threw, or the object, its header or its data is absent
TempLevel(f) ==
    IF ~f.fetched \/ ~f.hasData THEN <<>>
    ELSE <<[label |-> label(f.header), T |-> to32(f.data)]>>

\* one pass of the wind loop body; a fetch that rejects ends the chain before setLevels
LoadWindFile ==
    /\ loader.state = "loading"
    /\ loader.pos < Len(manifest)
    /\ LET f == manifest[loader.pos + 1]
       IN  IF ~f.fetched
           THEN /\ loader' = [loader EXCEPT !.state = "rejected"]
                /\ gridMeta' = gridMeta
           ELSE /\ loader' = [loader EXCEPT !.pos = @ + 1, !.next = @ \o Level(f)]
                /\ gridMeta' = IF Len(f.uv) >= 2 /\ gridMeta = NoMeta
                               THEN Meta(f.uv[1].header) ELSE gridMeta
    /\ last' = "loadWindFile"
    /\ UNCHANGED <<colorVars, sessionVars, U, V, qlon, qlat, res, particleVars, viewVars, timerVars,
                   manifest, levels, tempManifest, tempLoader, tempLevels, tempGridMeta>>

\* setLevels(next)
\* setLevels(next), and the rendering effect that the new levels trigger
SetLevels ==
    /\ loader.state = "loading"
    /\ loader.pos = Len(manifest)
    /\ levels' = loader.next
    /\ loader' = [loader EXCEPT !.state = "done"]
    /\ last' = "setLevels"
    /\ IF loader.next = <<>> \/ gridMeta = NoMeta
       THEN UNCHANGED <<U, V, particleVars, viewVars, timerVars, thrown, tempSeen>>
       ELSE IF lvlIdx \notin 0 .. Len(loader.next) - 1
       THEN /\ thrown' = TRUE
            /\ UNCHANGED <<U, V, particleVars, viewVars, timerVars, tempSeen>>
       ELSE /\ epoch' = 1
            /\ Setup(loader.next[lvlIdx + 1], overlayMode)
            /\ UNCHANGED <<ticks, size, lvlIdx, overlayMode, airModeEnabled, thrown>>
    /\ UNCHANGED <<colorVars, dashOpen, stale, gridMeta, qlon, qlat, res,
                   manifest, tempManifest, tempLoader, tempLevels, tempGridMeta>>

\* one pass of the temperature loop body, inside its try/catch
LoadTempFile ==
    /\ tempLoader.state = "loading"
    /\ tempLoader.pos < Len(tempManifest)
    /\ LET f == tempManifest[tempLoader.pos + 1]
       IN  /\ tempLoader' = [tempLoader EXCEPT !.pos = @ + 1, !.next = @ \o TempLevel(f)]
           /\ tempGridMeta' = IF TempLevel(f) # <<>> /\ tempGridMeta = NoMeta
                              THEN Meta(f.header) ELSE tempGridMeta
    /\ last' = "loadTempFile"
    /\ UNCHANGED <<colorVars, sessionVars, sampleVars, particleVars, viewVars, timerVars,
                   manifest, loader, levels, tempManifest, tempLevels>>

\* setTempLevels(next)
SetTempLevels ==
    /\ tempLoader.state = "loading"
    /\ tempLoader.pos = Len(tempManifest)
    /\ tempLevels' = tempLoader.next
    /\ tempLoader' = [tempLoader EXCEPT !.state = "done"]
    /\ last' = "setTempLevels"
    /\ UNCHANGED <<colorVars, sessionVars, sampleVars, particleVars, viewVars, timerVars,
                   manifest, loader, levels, tempManifest, tempGridMeta>>

\* the header of the file for the k-th level of a manifest on grid g
Header(g, k) ==
    [nx |-> g.nx, ny |-> g.ny, lo1 |-> g.lo1, la1 |-> g.la1, dx |-> g.dx, dy |-> g.dy,
     surface1Type |-> IF k = 1 THEN 103 ELSE 100,
     surface1Value |-> IF k = 1 THEN 10 ELSE 1100 - 100 * k]

Obj(h, d) == [header |-> h, data |-> d]

\* what the k-th name of a wind manifest may yield: a good file, a header with
\* nx = 1, a header with dx = 0, a U array one short, a lone object, a failed fetch
WindFiles(k) ==
    LET h == Header(HScenario, k)
        d == <<k, 0 - 2, Null, 4>>
    IN  {[fetched |-> TRUE, uv |-> <<Obj(h, d), Obj(h, <<3, k, 0, Null>>)>>],
         [fetched |-> TRUE, uv |-> <<Obj([h EXCEPT !.nx = 1], <<k, 2>>),
                                     Obj([h EXCEPT !.nx = 1], <<3, k>>)>>],
         [fetched |-> TRUE, uv |-> <<Obj([h EXCEPT !.dx = 0], d), Obj([h EXCEPT !.dx = 0], d)>>],
         [fetched |-> TRUE, uv |-> <<Obj(h, d), Obj(h, <<3, k, 0>>)>>],
         [fetched |-> TRUE, uv |-> <<Obj(h, d)>>],
         [fetched |-> FALSE, uv |-> <<>>]}

\* what the k-th name of a temperature manifest may yield: a good file, a header
\* with nx = 1, a T array one short, an object without data, a failed fetch
TempFiles(k) ==
    LET h == Header(HScenario, k)
        d == <<300, 250 + k, Null, 280>>
    IN  {[fetched |-> TRUE, hasData |-> TRUE, header |-> h, data |-> d],
         [fetched |-> TRUE, hasData |-> TRUE, header |-> [h EXCEPT !.nx = 1], data |-> <<300, 280>>],
         [fetched |-> TRUE, hasData |-> TRUE, header |-> h, data |-> <<300, 280, 270>>],
         [fetched |-> TRUE, hasData |-> FALSE, header |-> h, data |-> <<>>],
         [fetched |-> FALSE, hasData |-> FALSE, header |-> h, data |-> <<>>]}

Manifests(Files(_)) ==
    UNION {{m \in [1 .. n -> UNION {Files(k) : k \in 1 .. n}] : \A k \in 1 .. n : m[k] \in Files(k)}
           : n \in 0 .. MaxFiles}

\* the rendering effect returns at once while levels is empty: its state is not made yet
NotRendering ==
    /\ U = <<>> /\ V = <<>>
    /\ qlon = 0 /\ qlat = 0
    /\ res = [u |-> NaN, v |-> NaN]
    /\ particles = [i \in Pids |-> [lon |-> 0, lat |-> 0, age2 |-> 0]]
    /\ prevXY = [i \in Pids |-> NoXY]
    /\ drawn = [i \in Pids |-> ""]
    /\ path = [i \in Pids |-> "none"]
    /\ trailInk = FALSE
    /\ ticks = 0
    /\ camera = [pos |-> 0, target |-> 0, behind |-> FALSE]
    /\ lastCam = [pos |-> 0, target |-> 0]
    /\ size = [w |-> 1000, h |-> 800]
    /\ overlayMode = "wind"
    /\ airModeEnabled = TRUE
    /\ lvlIdx = 0
    /\ epoch = 0
    /\ isMoving = FALSE
    /\ moveTimeout = Off
    /\ controlsChangeTimeout = Off
    /\ resizeTimers = <<>>
    /\ initTimer = Off
    /\ overlayFrames = 0
    /\ overlay = "clear"
    /\ overlaySrc = <<>>
    /\ sinceMove = Off
    /\ ColorIdle
    /\ Fresh(<<>>)

\* the component just mounted: both load effects have fetched their manifests
LoadInit ==
    /\ manifest \in Manifests(WindFiles)
    /\ tempManifest \in Manifests(TempFiles)
    /\ loader = [pos |-> 0, next |-> <<>>, state |-> "loading"]
    /\ tempLoader = [pos |-> 0, next |-> <<>>, state |-> "loading"]
    /\ levels = <<>>
    /\ tempLevels = <<>>
    /\ gridMeta = NoMeta
    /\ tempGridMeta = NoMeta
    /\ NotRendering
    /\ last = "mount"

LoadNext ==
    \/ LoadWindFile
    \/ SetLevels
    \/ LoadTempFile
    \/ SetTempLevels

SpecLoad == LoadInit /\ [][LoadNext]_vars

\* the JSON data array that to32 turns into A
DataOf(A) == [k \in 1 .. Cardinality(DOMAIN A) |-> IF A[k - 1] = NaN THEN Null ELSE A[k - 1]]

\* the state the effect body leaves behind (lines 335-410 and 970-988), but
\* for the particles and the sizes: the camera at (0, 0, 450) on target, no
\* timer but the one the first resize() set and the initial-render timer
EffectStarted(mode, sz) ==
    /\ overlayMode = mode
    /\ airModeEnabled = (mode # "none")
    /\ lvlIdx = 0
    /\ epoch = 1
    /\ camera = [pos |-> 0, target |-> 0, behind |-> FALSE]
    /\ lastCam = [pos |-> 0, target |-> 0]
    /\ size = sz
    /\ isMoving = FALSE
    /\ moveTimeout = Off
    /\ controlsChangeTimeout = Off
    /\ resizeTimers = IF OverlayWanted(mode # "none", mode) THEN <<Delay(RESIZE_MS)>> ELSE <<>>
    /\ initTimer = IF OverlayWanted(mode # "none", mode) THEN Delay(INITIAL_MS) ELSE Off
    /\ overlayFrames = 0
    /\ overlay = "clear"
    /\ overlaySrc = <<>>
    /\ sinceMove = Off
    /\ prevXY = [i \in Pids |-> NoXY]
    /\ drawn = [i \in Pids |-> ""]
    /\ path = [i \in Pids |-> "none"]
    /\ trailInk = FALSE
    /\ ticks = 0
    /\ last = "effect"
    /\ ColorIdle
    /\ Fresh(tempLevels)

NoQuery ==
    /\ qlon = 0
    /\ qlat = gridMeta.la1
    /\ res = windAt(gridMeta, U, V, 0, gridMeta.la1)

\* the wind loader has finished on a one-file manifest that holds d, the
\* temperature loader on an empty one; the effect destructured level 0
Loaded(d) ==
    LET h == Header(d.g, 1)
        f == [fetched |-> TRUE, uv |-> <<Obj(h, DataOf(d.V)), Obj(h, DataOf(d.U))>>]
    IN  /\ manifest = <<f>>
        /\ loader = [pos |-> 1, next |-> Level(f), state |-> "done"]
        /\ levels = Level(f)
        /\ tempManifest = <<>>
        /\ tempLoader = [pos |-> 0, next |-> <<>>, state |-> "done"]
        /\ tempLevels = <<>>
        /\ tempGridMeta = NoMeta
        /\ gridMeta = Meta(h)
        /\ U = levels[1].U
        /\ V = levels[1].V

SampleInit ==
    /\ \E d \in Datasets : Loaded(d)
    /\ NoQuery
    /\ particles = [i \in Pids |-> [lon |-> 0, lat |-> 0, age2 |-> 0]]
    /\ EffectStarted("wind", [w |-> 1000, h |-> 800])

\* one call windAt(lon, lat) against the arrays the effect holds
Sample(lon, lat) ==
    /\ qlon' = lon
    /\ qlat' = lat
    /\ res' = windAt(gridMeta, U, V, lon, lat)
    /\ last' = "windAt"
    /\ UNCHANGED <<colorVars, sessionVars, loadVars, gridMeta, U, V, particleVars, viewVars, timerVars>>

\* the harness walks the sample positions, one step of longitude or latitude per call
SampleNext ==
    \E lon \in SampleLons, lat \in SampleLats(gridMeta) :
        /\ \/ lat = qlat /\ lon \in {qlon - 5000, qlon + 5000}
           \/ lon = qlon /\ lat \in {qlat - gridMeta.dy \div 2, qlat + gridMeta.dy \div 2}
        /\ Sample(lon, lat)

SpecSample == SampleInit /\ [][SampleNext]_vars

\* the global grid with the cell at row 3, column 4 missing
\* A with its 90-degree row set to 0: no zonal wind at the north pole
PolarCalm(A) == [c \in DOMAIN A |-> IF c < HGlobal.nx THEN 0 ELSE A[c]]

ParticleData == [g |-> HGlobal, U |-> Hole(PolarCalm(GlobalU), 40), V |-> Hole(GlobalV, 41)]

\* the particle system alone: any pool the random draws can give, under a
\* camera at rest that faces the globe or has it behind
ParticleInit ==
    /\ Loaded(ParticleData)
    /\ NoQuery
    /\ \E ps \in [Pids -> RandomDraws], as \in [Pids -> RandomAges2] :
            particles = [i \in Pids |-> [lon |-> ps[i].lon, lat |-> ps[i].lat, age2 |-> as[i]]]
    /\ \E mode \in {"wind", "temperature"} : EffectStarted(mode, [w |-> 1000, h |-> 800])

ParticleNext == UpdateParticles

SpecParticles == ParticleInit /\ [][ParticleNext]_vars

\* the rendering effect: the animation loop, the camera, the window and the timers
RenderInit ==
    /\ Loaded([g |-> HGlobal, U |-> GlobalU, V |-> GlobalV])
    /\ NoQuery
    /\ particles = [i \in Pids |-> [lon |-> 60000, lat |-> 0, age2 |-> 0]]
    /\ \E mode \in {"wind", "temperature", "none"} : EffectStarted(mode, [w |-> 1000, h |-> 800])

RenderNext ==
    \/ UpdateParticles
    \/ \E g \in Gestures : ControlsChange(g)
    \/ DebounceQuiet
    \/ HandleCamMove
    \/ Settle
    \/ \E sz \in Sizes : Resize(sz)
    \/ ResizeTimer
    \/ InitialTimer
    \/ OverlayFrame
    \/ TimePasses

SpecRender == RenderInit /\ [][RenderNext]_vars

\* the wind file that holds the arrays of d as the k-th level
WindFileOf(d, k) ==
    [fetched |-> TRUE,
     uv |-> <<Obj(Header(d.g, k), DataOf(d.V)), Obj(Header(d.g, k), DataOf(d.U))>>]

\* the temperature file that holds T on grid g as the k-th level
TempFileOf(g, T, k) ==
    [fetched |-> TRUE, hasData |-> TRUE, header |-> Header(g, k), data |-> DataOf(T)]

\* both loaders have finished on manifests of good files ws and ts
LoadedAll(ws, ts) ==
    /\ manifest = ws
    /\ levels = [k \in 1 .. Len(ws) |-> Level(ws[k])[1]]
    /\ loader = [pos |-> Len(ws), next |-> levels, state |-> "done"]
    /\ tempManifest = ts
    /\ tempLevels = [k \in 1 .. Len(ts) |-> TempLevel(ts[k])[1]]
    /\ tempLoader = [pos |-> Len(ts), next |-> tempLevels, state |-> "done"]
    /\ gridMeta = Meta(ws[1].uv[1].header)
    /\ tempGridMeta = IF ts = <<>> THEN NoMeta ELSE Meta(ts[1].header)

\* two wind levels on the global grid, the second with the components exchanged
TwoLevels ==
    <<WindFileOf([g |-> HGlobal, U |-> GlobalU, V |-> GlobalV], 1),
      WindFileOf([g |-> HGlobal, U |-> GlobalV, V |-> GlobalU], 2)>>

\* temperature levels (Kelvin) on the global grid
GlobalT(k) == [c \in Cells(HGlobal) |-> 240 + 20 * k + (c % 7)]

\* a temperature manifest as long as the wind manifest, or one level short
TempSets ==
    {<<TempFileOf(HGlobal, GlobalT(1), 1), TempFileOf(HGlobal, GlobalT(2), 2)>>,
     <<TempFileOf(HGlobal, GlobalT(1), 1)>>,
     <<>>}

\* the first animation frame on a pool spawned at (60, 0), age 0
FirstFrame == ParticleTick([lon |-> 60000, lat |-> 0, age2 |-> 0], NoXY)

\* the animation frame that follows the frame that left first
SecondFrame(first) == ParticleTick(first.p, first.prev)

\* the effect runs on level 0 of two and has run its first two animation
\* frames (33 ms, no timer has fired yet); levels and modes get switched
SwitchInit ==
    /\ \E ts \in TempSets : LoadedAll(TwoLevels, ts)
    /\ U = levels[1].U
    /\ V = levels[1].V
    /\ NoQuery
    /\ \E mode \in {"wind", "temperature", "none"} :
        /\ overlayMode = mode
        /\ airModeEnabled = (mode # "none")
        /\ resizeTimers = IF OverlayWanted(mode # "none", mode) THEN <<Delay(RESIZE_MS)>> ELSE <<>>
        /\ initTimer = IF OverlayWanted(mode # "none", mode) THEN Delay(INITIAL_MS) ELSE Off
    /\ lvlIdx = 0
    /\ epoch = 1
    /\ camera = [pos |-> 0, target |-> 0, behind |-> FALSE]
    /\ lastCam = [pos |-> 0, target |-> 0]
    /\ size = [w |-> 1000, h |-> 800]
    /\ isMoving = FALSE
    /\ moveTimeout = Off
    /\ controlsChangeTimeout = Off
    /\ overlayFrames = 0
    /\ overlay = "clear"
    /\ overlaySrc = <<>>
    /\ sinceMove = Off
    /\ \E first \in {FirstFrame} : \E second \in {SecondFrame(first)} :
        /\ particles = [i \in Pids |-> second.p]
        /\ prevXY = [i \in Pids |-> second.prev]
        /\ drawn = [i \in Pids |-> second.seg]
        /\ path = [i \in Pids |-> second.path]
    /\ trailInk = TRUE
    /\ ticks = 2
    /\ last = "updateParticles"
    /\ ColorIdle
    /\ Fresh(tempLevels)

SwitchNext ==
    \/ \E i \in 0 .. 1 : SetLvlIdx(i)
    \/ \E m \in {"wind", "temperature", "none"} : SetOverlayMode(m)
    \/ ControlsChange([dpos |-> 3, dtarget |-> 0])
    \/ HandleCamMove
    \/ Settle
    \/ ResizeTimer
    \/ InitialTimer
    \/ OverlayFrame
    \/ StaleResizeTimer
    \/ StaleInitialTimer
    \/ StaleOverlayFrame
    \/ TimePasses

\* timers fire when due, requested animation frames run, time passes
SpecSwitch ==
    /\ SwitchInit
    /\ [][SwitchNext]_vars
    /\ WF_vars(HandleCamMove)
    /\ WF_vars(Settle)
    /\ WF_vars(ResizeTimer)
    /\ WF_vars(InitialTimer)
    /\ WF_vars(OverlayFrame)
    /\ WF_vars(StaleResizeTimer)
    /\ WF_vars(StaleInitialTimer)
    /\ WF_vars(StaleOverlayFrame)
    /\ WF_vars(TimePasses)

\* the switches with the animation frames and the window resizes in between,
\* the camera left alone
ArraysNext ==
    \/ \E i \in 0 .. 1 : SetLvlIdx(i)
    \/ \E m \in {"wind", "temperature", "none"} : SetOverlayMode(m)
    \/ UpdateParticles
    \/ Resize([w |-> 500, h |-> 500])
    \/ ResizeTimer
    \/ InitialTimer
    \/ OverlayFrame
    \/ StaleResizeTimer
    \/ StaleInitialTimer
    \/ StaleOverlayFrame
    \/ TimePasses

SpecArrays == SwitchInit /\ [][ArraysNext]_vars

\* animation frames of one effect instance with the overlay off, started on
\* particles in front of the camera, at its horizon and behind the globe,
\* while the camera is dragged and panned and the window resized
TrailLons == {60000, 89980, 179995}

TrailInit ==
    /\ Loaded([g |-> HGlobal, U |-> GlobalU, V |-> GlobalV])
    /\ NoQuery
    /\ \E l \in TrailLons : particles = [i \in Pids |-> [lon |-> l, lat |-> 0, age2 |-> 0]]
    /\ EffectStarted("none", [w |-> 1000, h |-> 800])

TrailNext ==
    \/ UpdateParticles
    \/ \E g \in Gestures : ControlsChange(g)
    \/ DebounceQuiet
    \/ HandleCamMove
    \/ Settle
    \/ \E sz \in Sizes : Resize(sz)
    \/ TimePasses

SpecTrail == TrailInit /\ [][TrailNext]_vars

\* a session from the mount on: the two loaders run on manifests of two good
\* files each while the dashboard is opened, keys are pressed, the altitude
\* control and the overlay selector are used and the timers fire; nothing
\* runs once the rendering effect has thrown
SessionInit ==
    /\ manifest = TwoLevels
    /\ tempManifest = <<TempFileOf(HGlobal, GlobalT(1), 1), TempFileOf(HGlobal, GlobalT(2), 2)>>
    /\ loader = [pos |-> 0, next |-> <<>>, state |-> "loading"]
    /\ tempLoader = [pos |-> 0, next |-> <<>>, state |-> "loading"]
    /\ levels = <<>>
    /\ tempLevels = <<>>
    /\ gridMeta = NoMeta
    /\ tempGridMeta = NoMeta
    /\ NotRendering
    /\ last = "mount"

SessionNext ==
    \/ ~thrown /\ LoadWindFile
    \/ ~thrown /\ SetLevels
    \/ ~thrown /\ LoadTempFile
    \/ ~thrown /\ SetTempLevels
    \/ ~thrown /\ ToggleDash
    \/ ~thrown /\ \E k \in Keys : KeyDown(k)
    \/ ~thrown /\ \E i \in 0 .. 1 : SetLvlIdx(i)
    \/ ~thrown /\ \E m \in {"wind", "temperature", "none"} : SetOverlayMode(m)
    \/ ~thrown /\ ResizeTimer
    \/ ~thrown /\ InitialTimer
    \/ ~thrown /\ OverlayFrame
    \/ ~thrown /\ StaleResizeTimer
    \/ ~thrown /\ StaleInitialTimer
    \/ ~thrown /\ StaleOverlayFrame
    \/ ~thrown /\ TimePasses

SpecSession == SessionInit /\ [][SessionNext]_vars

\* the colour maps are called on whole speeds from -1 m/s up, on temperatures
\* every 5 degrees from -100 up (Celsius, and Kelvin above 100), on the
\* non-finite values, and with alpha 0, 0.35 (TEMP_OVERLAY_ALPHA), 0.4
\* (OVERLAY_ALPHA) and 1
MaxSpeed == 102

MaxTemps == 91

SpeedInputs == {NaN, Infinity, NegInfinity} \cup (0 - 1 .. MaxSpeed)

TempInputs == {NaN, Infinity, NegInfinity} \cup {(k - 21) * 500 : k \in 1 .. MaxTemps}

AlphaInputs == {0, 350, 400, 1000}

ColorInit ==
    /\ manifest = <<>>
    /\ tempManifest = <<>>
    /\ loader = [pos |-> 0, next |-> <<>>, state |-> "loading"]
    /\ tempLoader = [pos |-> 0, next |-> <<>>, state |-> "loading"]
    /\ levels = <<>>
    /\ tempLevels = <<>>
    /\ gridMeta = NoMeta
    /\ tempGridMeta = NoMeta
    /\ NotRendering
    /\ last = "mount"

ColorNext ==
    \/ \E w \in SpeedInputs, a \in AlphaInputs : CallWindSpeedColorScale(w, a)
    \/ \E t \in TempInputs, a \in AlphaInputs : CallTempColorScale(t, a)

SpecColor == ColorInit /\ [][ColorNext]_vars

\* the temperature branch of an overlay pass paints samples of the
\* temperatures above, in cells surrounded by missing values, by 20 degrees
\* Celsius or by 300 Kelvin
NearInputs == {NaN, 2000, 30000}

PixelNext == \E t \in TempInputs, near \in NearInputs : PaintTempPixel(t, near)

SpecPixel == ColorInit /\ [][PixelNext]_vars

-----------------------------------------------------------------------------
(* Claims about the sampler, checked under SpecSample *)

\* cell (row j, column i mod nx) of an array: the neighbour the data model names
Cell(g, A, j, i) == IF j \in 0 .. (g.ny - 1) THEN A[j * g.nx + (i % g.nx)] ELSE NaN

\* the last call sampled exactly the grid point (i, j)
AtGridPoint(i, j) ==
    /\ qlon = gridMeta.lo1 + i * gridMeta.dx
    /\ qlat = gridMeta.la1 - j * gridMeta.dy

AllFinite(g, A, j, i) ==
    /\ isFinite(Cell(g, A, j, i))
    /\ isFinite(Cell(g, A, j, i + 1))
    /\ isFinite(Cell(g, A, j + 1, i))
    /\ isFinite(Cell(g, A, j + 1, i + 1))

Gathered(A) ==
    LET p == GridPos(gridMeta, qlon, qlat)
    IN  Gather(gridMeta, A, p.i0, p.j0)

AnyMissing(n) == n.g00 = NaN \/ n.g10 = NaN \/ n.g01 = NaN \/ n.g11 = NaN

\* C2: if any of the four gathered neighbours is missing, the component windAt
\* returns is missing, whatever the fractional offsets (zero weights included).
C2_MissingPropagates ==
    /\ AnyMissing(Gathered(U)) => res.u = NaN
    /\ AnyMissing(Gathered(V)) => res.v = NaN

\* a missing neighbour of weight zero, next to a finite cell of weight one
C2_Witness ==
    LET p == GridPos(gridMeta, qlon, qlat)
    IN  /\ qlon = gridMeta.lo1 + gridMeta.dx
        /\ p.ri = 0
        /\ p.rj = 0
        /\ isFinite(Gathered(U).g00)
        /\ Gathered(U).g10 = NaN
        /\ isFinite(Gathered(U).g01)
        /\ isFinite(Gathered(U).g11)
        /\ res.u = NaN

\* C3: windAt(lon, lat) = windAt(lon + 360, lat), for every sampled lon (negative
\* ones, -180 and 180 included) and lat.
C3_LonPeriodic ==
    /\ res = windAt(gridMeta, U, V, qlon + 360000, qlat)
    /\ res = windAt(gridMeta, U, V, qlon - 360000, qlat)

C3_Witness ==
    /\ qlon = 0 - 180000
    /\ isFinite(res.u)
    /\ res = windAt(gridMeta, U, V, 180000, qlat)

\* the bilinear blend of the cell whose north-west corner is (row r, column c),
\* at offsets a (east) and b (south) of that corner, times dx*dy
Bilinear(g, A, r, c, a, b) ==
    Cell(g, A, r, c) * (g.dx - a) * (g.dy - b)
    + Cell(g, A, r, c + 1) * a * (g.dy - b)
    + Cell(g, A, r + 1, c) * (g.dx - a) * b
    + Cell(g, A, r + 1, c + 1) * a * b

\* the columns that start a cell: all but the last, and the last too on a
\* grid that closes around the globe
CellColumns(g) == 0 .. (IF g.nx * g.dx = 360000 THEN g.nx - 1 ELSE g.nx - 2)

C5_AsStated ==
    LET g == gridMeta
        p == GridPos(g, qlon, qlat)
    IN  \A dj \in {0, 1}, di \in {0, 1} :
            LET k == idx(g.nx, p.j0 + dj, p.i0 + di)
            IN  /\ k - (p.j0 + dj) * g.nx \in 0 .. (g.nx - 1)
                /\ k - (p.j0 + dj) * g.nx = (p.i0 + di) % g.nx
                /\ (p.j0 + dj) \notin 0 .. (g.ny - 1) => ArrGet(U, k) = NaN

-----------------------------------------------------------------------------
(* The particle system *)

\* C6 (as stated): every stored particle has its latitude strictly inside (-90, 90)
C6_AsStated ==
    \A i \in Pids : particles[i].lat > 0 - 90000 /\ particles[i].lat < 90000

\* C7 (as stated): after any ticks every stored particle has its longitude in [-180, 180)
C7_AsStated ==
    \A i \in Pids : particles[i].lon >= 0 - 180000 /\ particles[i].lon < 180000

\* the step is an animation tick in which particle i, its wind finite, is
\* incremented to an age above PARTICLE_LIFE
Outlives(i) ==
    /\ ticks' = ticks + 1
    /\ isFinite(windAt(gridMeta, U, V, particles[i].lon, particles[i].lat).u)
    /\ isFinite(windAt(gridMeta, U, V, particles[i].lon, particles[i].lat).v)
    /\ particles[i].age2 + 2 > 2 * PARTICLE_LIFE

\* C8: a particle whose age after the increment exceeds PARTICLE_LIFE leaves
\* the tick with age 0 and its previous screen position cleared, wherever it
\* was; no particle ends a tick with age above PARTICLE_LIFE
C8_Recycled ==
    /\ [](\A i \in Pids : particles[i].age2 <= 2 * PARTICLE_LIFE)
    /\ [][\A i \in Pids : Outlives(i) => particles'[i].age2 = 0 /\ prevXY'[i] = NoXY]_vars

\* a particle was recycled for its age in the third tick, after a segment
\* had been stroked (so a previous screen position was held)
C8_Witness ==
    \E i \in Pids :
        /\ path[i] = "expired"
        /\ ticks = 3
        /\ trailInk
        /\ particles[i].age2 = 0
        /\ prevXY[i] = NoXY

\* the tick about to run takes particle p across a pole: its wind is finite
\* and the updated latitude exceeds +-90
PoleTick(p) ==
    LET w == windAt(gridMeta, U, V, p.lon, p.lat)
    IN  /\ isFinite(w.u) /\ isFinite(w.v)
        /\ PoleCrossed(p.lat + Advance(w.v, Den(gridMeta)))

\* C20: in a tick in which a particle's updated latitude exceeds +-90, no
\* trail segment is drawn for it (its trail state having been cleared)
C20_AsStated ==
    [][\A i \in Pids :
        (ticks' = ticks + 1 /\ PoleTick(particles[i])) => drawn'[i] = ""]_vars

\* the longitude line 930 stores for p before the pole branch
AdvectedLon(p) ==
    LET w == windAt(gridMeta, U, V, p.lon, p.lat)
    IN  wrapLon(p.lon + (Advance(w.u, Den(gridMeta)) * SecMilli(p.lat)) \div 1000)

\* C21: in a tick in which a particle's updated latitude exceeds +-90 (and
\* the particle is not recycled for its age), the longitude stored after the
\* tick differs from the advected longitude by 180 degrees modulo 360
C21_AsStated ==
    [][\A i \in Pids :
        (ticks' = ticks + 1 /\ PoleTick(particles[i]) /\ ~Expired(particles[i].age2 + 2)) =>
            (particles'[i].lon - AdvectedLon(particles[i]) - 180000) % 360000 = 0]_vars

\* the field sample of p is missing: u or v is not finite
Missing(p) ==
    LET w == windAt(gridMeta, U, V, p.lon, p.lat)
    IN  ~isFinite(w.u) \/ ~isFinite(w.v)

\* C22: in a tick, a particle whose sample is missing is recycled (a fresh
\* random position, age 0, trail state cleared) and skipped: it is not
\* advected or aged and no segment is drawn for it, and the tick completes
C22_MissingRecycled ==
    [][\A i \in Pids :
        (ticks' = ticks + 1 /\ Missing(particles[i])) =>
            /\ particles'[i] \in [lon : RandomLons, lat : RandomLats, age2 : {0}]
            /\ prevXY'[i] = NoXY
            /\ drawn'[i] = ""
            /\ path'[i] = "missing"
            /\ last' = "updateParticles"]_vars

\* the second tick found a particle on a missing sample and recycled it to
\* a fresh draw
C22_Witness ==
    \E i \in Pids :
        /\ ticks = 2
        /\ path[i] = "missing"
        /\ particles[i] = [lon |-> 30000, lat |-> 0 - 89992, age2 |-> 0]
        /\ prevXY[i] = NoXY
        /\ drawn[i] = ""

\* the particle was advected and aged by the frame, neither recycled for a
\* missing sample nor for its age
Kept(i) ==
    /\ ticks' = ticks + 1
    /\ ~Missing(particles[i])
    /\ particles'[i].age2 = particles[i].age2 + 2

\* C23: a frame draws a segment for a particle only if its trail state held a
\* screen position, its previous and its current position face the camera,
\* the current position projects, and the segment is no longer than 0.4 times
\* the smaller canvas dimension; a particle that was advected and fails a
\* visibility or the projection check has its trail state cleared
C23_SegmentGuarded ==
    [][\A i \in Pids :
        /\ (ticks' = ticks + 1 /\ drawn'[i] # "") =>
            /\ prevXY[i] # NoXY
            /\ Visible(camera, particles[i].lon, particles[i].lat)
            /\ Visible(camera, particles'[i].lon, particles'[i].lat)
            /\ worldToScreen(camera, size, particles'[i].lon, particles'[i].lat).ok
            /\ LET m  == IF size.w < size.h THEN size.w ELSE size.h
                   dx == prevXY'[i].x - prevXY[i].x
                   dy == prevXY'[i].y - prevXY[i].y
               IN  25 * (dx * dx + dy * dy) <= 4 * m * m
        /\ (/\ Kept(i)
            /\ \/ ~Visible(camera, particles[i].lon, particles[i].lat)
               \/ ~Visible(camera, particles'[i].lon, particles'[i].lat)
               \/ ~worldToScreen(camera, size, particles'[i].lon, particles'[i].lat).ok) =>
            (prevXY'[i] = NoXY /\ drawn'[i] = "")]_vars

\* a particle that had a segment drawn in the second frame crossed the
\* horizon in the third, which cleared its trail state
C23_Witness ==
    \E i \in Pids :
        /\ ticks = 3
        /\ trailInk
        /\ path[i] = "hidden"
        /\ particles[i].lon > 90000
        /\ particles[i].lon < 90100
        /\ prevXY[i] = NoXY
        /\ drawn[i] = ""

\* winds along a parallel, whose speed Math.hypot(u, v) is the whole number u
CalmToBreeze == {[u |-> s, v |-> 0] : s \in 0 .. 2}

\* the colour of the wind-speed ramp for such a wind
RampColor(w) == windSpeedColorScale(w.u, 1000)

\* C24: the segments a frame draws are coloured by the wind-speed ramp of the
\* local wind, so that the stroke colour used while segments are drawn tells
\* apart winds whose speeds have different ramp colours
C24_AsStated ==
    [][\A i \in Pids :
        (ticks' = ticks + 1 /\ drawn'[i] # "") =>
            \A a, b \in CalmToBreeze :
                RampColor(a) # RampColor(b) =>
                    trailColor(overlayMode, a.u, a.v) # trailColor(overlayMode, b.u, b.v)]_vars

-----------------------------------------------------------------------------
(* Camera movement and the overlay *)

\* C9: handleCamMove leaves the trail canvas, every particle's previous
\* screen position and the overlay canvas cleared, and the overlay stays
\* clear, whichever timer or frame runs, until SETTLE_MS have passed since the
\* last handleCamMove
C9_MoveClears ==
    /\ last = "handleCamMove" =>
            /\ ~trailInk
            /\ \A i \in Pids : prevXY[i] = NoXY
            /\ overlay = "clear"
    /\ (isMoving \/ sinceMove \in 0 .. Delay(SETTLE_MS) - 1) => overlay = "clear"

\* a move was handled while a segment had just been stroked and a resize
\* timer and the initial-render timer were pending
C9_Witness ==
    /\ last = "handleCamMove"
    /\ \E i \in Pids : drawn[i] # ""
    /\ resizeTimers # <<>>
    /\ initTimer # Off
    /\ overlayMode # "none"

\* overlay recomputations scheduled and not yet run: the timers that end in
\* renderAirModeOverlay and its pending animation frames
PendingOverlay ==
    Len(resizeTimers) + overlayFrames
    + (IF initTimer # Off THEN 1 ELSE 0) + (IF moveTimeout # Off THEN 1 ELSE 0)

\* C11 (as stated): at most one overlay recomputation is pending at any time,
\* and a full overlay pass only ever paints an overlay that was cleared since
\* the pass before (no second pass for the same settled state)
C11_AsStated ==
    /\ [](OverlayWanted(airModeEnabled, overlayMode) => PendingOverlay <= 1)
    /\ [][last' = "overlayPass" => overlay = "clear"]_vars

\* C12 (as stated), for resizing: resize leaves no settle timer pending and no
\* overlay frame that was requested before it
C12_AsStated ==
    [][last' = "resize" => moveTimeout' = Off /\ overlayFrames' = 0]_vars

-----------------------------------------------------------------------------
(* Level and mode switches, checked under SpecSwitch *)

\* the arrays of the active level in the active mode
ActiveField ==
    IF overlayMode = "wind"
    THEN <<levels[lvlIdx + 1].U, levels[lvlIdx + 1].V>>
    ELSE IF lvlIdx < Len(tempLevels) THEN <<tempLevels[lvlIdx + 1].T>>
    ELSE <<>>

Switched == last \in {"setLvlIdx", "setOverlayMode"}

\* the mode paints an overlay and the active index has a level to paint from
HasField ==
    \/ overlayMode = "wind"
    \/ overlayMode = "temperature" /\ lvlIdx < Len(tempLevels)

\* C13: a level or mode switch leaves the trail canvas, every previous
\* screen position and the overlay cleared; when the new mode is wind or
\* temperature (and the index has a level of that kind), then, unless
\* another switch comes first, an overlay pass follows that samples the
\* arrays of the newly active level
C13_SwitchInvalidates ==
    /\ [](Switched =>
            /\ ~trailInk
            /\ \A i \in Pids : prevXY[i] = NoXY
            /\ overlay = "clear"
            /\ overlaySrc = <<>>)
    /\ \A e \in 2 .. MaxSwitches + 1 :
            (Switched /\ epoch = e /\ HasField)
                ~> (epoch # e \/ (overlay = overlayMode /\ overlaySrc = ActiveField))

\* after a switch to level 1 a wind pass has sampled level 1
C13_Witness ==
    /\ epoch = 2
    /\ lvlIdx = 1
    /\ last = "overlayPass"
    /\ overlay = "wind"
    /\ overlaySrc = <<levels[2].U, levels[2].V>>
    /\ overlaySrc # <<levels[1].U, levels[1].V>>

\* the temperature overlay is selected and the level index has no temperature
\* level, or no temperature file gave grid metadata
Mismatch ==
    /\ overlayMode = "temperature"
    /\ lvlIdx >= Len(tempLevels) \/ tempGridMeta = NoMeta

\* C25: under such a mismatch an overlay pass samples nothing (it writes no
\* pixel) and throws nothing, and the animation frames go on advecting the
\* particles
C25_MismatchTolerated ==
    /\ [][(Mismatch' /\ last' = "overlayPass") => (overlaySrc' = <<>> /\ ~thrown')]_vars
    /\ [][(Mismatch /\ ticks' = ticks + 1) =>
            (~thrown' /\ \A i \in Pids : path'[i] \in {"moved", "hidden"}
                                         /\ particles'[i].age2 = particles[i].age2 + 2)]_vars

\* with one temperature level loaded and level 1 of 0 .. 1 selected, a pass
\* has left the overlay empty and an animation frame has then moved the particle
C25_Witness ==
    /\ Mismatch
    /\ Len(tempLevels) = 1
    /\ lvlIdx = 1
    /\ overlay = "temperature"
    /\ overlaySrc = <<>>
    /\ ticks = 3
    /\ last = "updateParticles"
    /\ \E i \in Pids : path[i] = "moved"

\* C28: once an instance of the rendering effect is torn down, no timer or
\* animation frame it scheduled runs an overlay pass (or a camera-move
\* handler) of that instance
C28_AsStated ==
    [][last' \notin {"staleOverlayPass", "staleHandleCamMove"}]_vars

\* C29: the moving state does not stick.  Once handleCamMove has run, the
\* settle timer fires and leaves isMoving false, unless the instance is torn
\* down first (a new instance has handled no move); and once the settle timer
\* has fired with the overlay enabled, a full overlay pass is performed, unless
\* another significant move is handled or the instance torn down before it
C29_SettlesEventually ==
    /\ isMoving ~> ((last = "settle" /\ ~isMoving) \/ sinceMove = Off)
    /\ (last = "settle" /\ OverlayWanted(airModeEnabled, overlayMode)) ~>
            (last = "overlayPass" \/ isMoving \/ sinceMove = Off)

\* a pass has painted the overlay after the settle timer of a handled move
\* fired, while the initial-render timer of the instance was still pending
C29_Witness ==
    /\ last = "overlayPass"
    /\ sinceMove # Off
    /\ ~isMoving
    /\ moveTimeout = Off
    /\ overlay # "clear"
    /\ initTimer # Off

-----------------------------------------------------------------------------
(* The session: keys, loads and switches in any order, checked under SpecSession *)

\* the step ran the body of the rendering effect past its early return, so
\* that line 339 read levels[lvlIdx]: an instance was set up, or the read threw
EffectRead == epoch' # epoch \/ (thrown' /\ ~thrown)

\* C26: whenever the rendering effect reads levels[lvlIdx], the index is
\* within 0 .. levels.length - 1, whatever keys were pressed before or after
\* the levels were loaded
C26_AsStated ==
    [][EffectRead => lvlIdx' \in 0 .. Len(levels') - 1]_vars


\* the temperature level of the active index has been loaded and published
TempReady ==
    /\ overlayMode = "temperature"
    /\ lvlIdx \in 0 .. Len(tempLevels) - 1
    /\ tempGridMeta # NoMeta

\* C27: an overlay pass that runs in temperature mode once the temperature
\* level of the active index is loaded samples that level, whatever the order
\* of the wind load, the temperature load and the mode switch
C27_AsStated ==
    [][(TempReady /\ last' = "overlayPass" /\ UNCHANGED <<overlayMode, lvlIdx, tempLevels>>) =>
            overlaySrc' = <<tempLevels[lvlIdx + 1].T>>]_vars

-----------------------------------------------------------------------------
(* The colour maps, checked under SpecColor *)

TempCalled == colorArgs.fn = "tempColorScale" /\ isFinite(colorArgs.value)

WindCalled == colorArgs.fn = "windSpeedColorScale"

\* the Celsius value the claim has tempColorScale map: Kelvin above 100,
\* then the clamp to [-80, 50]
CelsiusClamped(v) ==
    LET tempC == IF v > 10000 THEN v - 27315 ELSE v
    IN  IF tempC < 0 - 8000 THEN 0 - 8000 ELSE IF tempC > 5000 THEN 5000 ELSE tempC

\* C14: a temperature above 100 is taken as Kelvin and mapped as the Celsius
\* value 273.15 below it, clamped to [-80, 50]; 300 is 26.85 C, lies in the
\* Yellow-to-Orange segment 0.78 <= t < 0.86 and gets a red channel of 255
C14_KelvinToCelsius ==
    TempCalled =>
        /\ colorRet = tempColorScale(CelsiusClamped(colorArgs.value), colorArgs.alpha)
        /\ colorArgs.value = 30000 =>
            /\ toCelsius(colorArgs.value) = 2685
            /\ 78 * 13000 <= 100 * (2685 + 8000)
            /\ 100 * (2685 + 8000) < 86 * 13000
            /\ colorRet[1] = 255
            /\ colorRet[2] = Round(240 * 495 + 160 * 545, 1040)

C14_Witness ==
    /\ colorArgs = [fn |-> "tempColorScale", value |-> 30000, alpha |-> 1000]
    /\ colorRet = <<255, 198, 39, 255>>

\* C15: windSpeedColorScale returns [0, 0, 0, 0] for every non-finite or
\* negative speed and tempColorScale for every non-finite temperature,
\* whatever alpha was passed
C15_InvalidIsTransparent ==
    /\ (WindCalled /\ (~isFinite(colorArgs.value) \/ colorArgs.value < 0))
            => colorRet = <<0, 0, 0, 0>>
    /\ (colorArgs.fn = "tempColorScale" /\ ~isFinite(colorArgs.value))
            => colorRet = <<0, 0, 0, 0>>

C15_Witness ==
    /\ colorArgs = [fn |-> "windSpeedColorScale", value |-> 0 - 1, alpha |-> 1000]
    /\ colorRet = <<0, 0, 0, 0>>

\* C16: every finite speed of 100 m/s or more gets the colour of speed 100,
\* which is white; speed 0 gets the sinebow's colour at hue 0; every channel
\* lies in 0 .. 255 for the alphas in [0, 1]
C16_Saturates ==
    WindCalled =>
        /\ (isFinite(colorArgs.value) /\ colorArgs.value >= 100) =>
            /\ colorRet = windSpeedColorScale(100, colorArgs.alpha)
            /\ SubSeq(colorRet, 1, 3) = <<255, 255, 255>>
        /\ colorArgs.value = 0 =>
            /\ colorRet = sinebowColor(0, Alpha255(colorArgs.alpha))
            /\ SubSeq(colorRet, 1, 3) = <<0, 0, 255>>
        /\ \A k \in 1 .. 4 : colorRet[k] \in 0 .. 255

C16_Witness ==
    /\ colorArgs = [fn |-> "windSpeedColorScale", value |-> 102, alpha |-> 400]
    /\ colorRet = <<255, 255, 255, 102>>

\* two measures of a colour's lightness: the luminance 0.2126 R + 0.7152 G +
\* 0.0722 B (weights in thousandths) of the channels as they are, and of
\* their squares (gamma 2); c2 is darker than c1 when it is darker in both by
\* more than a tenth
Luma(c) == 213 * c[1] + 715 * c[2] + 72 * c[3]

Luma2(c) == 213 * c[1] * c[1] + 715 * c[2] * c[2] + 72 * c[3] * c[3]

Darker(c2, c1) ==
    /\ 10 * Luma(c2) < 9 * Luma(c1)
    /\ 10 * Luma2(c2) < 9 * Luma2(c1)

\* C17: for speeds 0 <= s1 < s2 <= 100 the colour of s2 is never darker than
\* the colour of s1
C17_AsStated ==
    (WindCalled /\ colorArgs.value \in 1 .. 100) =>
        \A s1 \in 0 .. colorArgs.value - 1 :
            ~Darker(colorRet, windSpeedColorScale(s1, colorArgs.alpha))

-----------------------------------------------------------------------------
(* The temperature overlay's pixels, checked under SpecPixel *)

\* C30: a sample that tempColorScale takes for Kelvin (finite, above 100) is
\* no artifact to the temperature overlay: its pixel has the colour of its
\* own interpolated value and the normal opacity factor 0.8
C30_AsStated ==
    (colorArgs.fn = "overlayPixel" /\ colorArgs.value > 10000) =>
        LET c == tempColorScale(colorArgs.value, TEMP_OVERLAY_ALPHA)
        IN  colorRet = <<c[1], c[2], c[3], Floor(c[4] * 800, 1000)>>

-----------------------------------------------------------------------------
(* The grid arrays, checked under SpecArrays *)

-----------------------------------------------------------------------------
(* Loading *)

\* nx < 2, dx <= 0, or a data array whose length is not nx * ny
Malformed(h, d) == h.nx < 2 \/ h.dx <= 0 \/ Len(d) # h.nx * h.ny

WindMalformed(f) ==
    \E k \in 1 .. Len(f.uv) : Malformed(f.uv[k].header, f.uv[k].data)

\* the labels of the files of a manifest that load and are well-formed, in order
WindAccepted(m) ==
    LET ok(f) == f.fetched /\ Len(f.uv) = 2 /\ ~WindMalformed(f)
        good == SelectSeq(m, ok)
    IN  [k \in 1 .. Len(good) |-> label(good[k].uv[1].header)]

TempAccepted(m) ==
    LET ok(f) == f.fetched /\ f.hasData /\ ~Malformed(f.header, f.data)
        good == SelectSeq(m, ok)
    IN  [k \in 1 .. Len(good) |-> label(good[k].header)]

Labels(ls) == [k \in 1 .. Len(ls) |-> ls[k].label]

\* C10 (as stated): once a loader has set its levels, they are the
\* well-formed levels of the manifest, every malformed one left out
C10_AsStated ==
    /\ loader.state = "done" => Labels(levels) = WindAccepted(manifest)
    /\ tempLoader.state = "done" => Labels(tempLevels) = TempAccepted(tempManifest)

\* C19: in every loaded wind level, S[i] is the square root of U[i]^2 +
\* V[i]^2 (S is kept squared) where U[i] and V[i] are both finite, and
\* missing otherwise
C19_SpeedField ==
    \A k \in 1 .. Len(levels) :
        \A i \in DOMAIN levels[k].U \cup DOMAIN levels[k].V :
            LET u == ArrGet(levels[k].U, i)
                v == ArrGet(levels[k].V, i)
            IN  ArrGet(levels[k].S, i) = IF isFinite(u) /\ isFinite(v) THEN u * u + v * v ELSE NaN

C19_Witness ==
    /\ Len(levels) = 2
    /\ levels[1].U = [j \in 0 .. 3 |-> <<3, 1, 0, NaN>>[j + 1]]
    /\ levels[1].V = [j \in 0 .. 3 |-> <<1, 0 - 2, NaN, 4>>[j + 1]]
    /\ levels[1].S = [j \in 0 .. 3 |-> <<10, 5, NaN, NaN>>[j + 1]]
    /\ DOMAIN levels[2].U = 0 .. 2
    /\ DOMAIN levels[2].V = 0 .. 3

=============================================================================
